---- MODULE Spec2Model ----
(***************************************************************************)
(* Model of aind_data_migration_utils.migrate.Migrator: a single-threaded  *)
(* pipeline  run() = guard ; _setup ; _migrate ; _upsert ; _teardown  and  *)
(* revert(), working against a remote document store through a client.     *)
(*                                                                         *)
(* The document store is the function db (identifier -> content of the     *)
(* document matching the query, or Absent).  The client is an external     *)
(* collaborator: a fetch returns the matching documents in identifier      *)
(* order, an upsert returns a response {status_code, text} and replaces    *)
(* the stored document when the status is 200.                             *)
(*                                                                         *)
(* A Python dict handed to the migration callback is the very object held  *)
(* in original_records, so a callback that modifies its argument in place  *)
(* modifies original_records too; the model keeps the three behaviours a   *)
(* callback can have on a record: return a new dict ("pure"), modify the   *)
(* argument and return it ("inplace"), raise ("raise").                    *)
(***************************************************************************)
EXTENDS Integers, Sequences, FiniteSets

\* ------------------------------------------------------------------ bounds
MaxRecords == 2      \* identifiers of the documents that match the query
MaxOps == 3          \* calls of __init__ / run / revert in one behaviour

\* --------------------------------------------------------- program constants
create_output_zip_params == 3   \* utils.py:51  (run_type, log_dir, output_path)
create_output_zip_args == 2     \* migrate.py:149  ("full"/"dry", self.log_dir)
HTTP_OK == 200                  \* migrate.py:129

Ids == 1..MaxRecords
Absent == "absent"
Names == {"old_name", "new_name"}
CallbackKinds == {"pure", "inplace", "raise"}
NoFile == <<"no file">>

Record(i, n) == [_id |-> i, name |-> n]

\* responses of client.upsert_one_docdb_record
Responses == {[status_code |-> 200, text |-> "OK"],
              [status_code |-> 500, text |-> "Internal Server Error"]}

VARIABLES
    db,                 \* remote store: Ids -> Names \cup {Absent}
    full_run,           \* self.full_run        (constructor flag)
    dry_run_complete,   \* self.dry_run_complete
    original_records,   \* self.original_records
    migrated_records,   \* self.migrated_records
    results,            \* self.results
    migration_callback, \* self.migration_callback: behaviour per identifier
    pc,                 \* position inside run(): idle/setup/migrate/upsert/teardown
    run_arg,            \* the full_run parameter of the current/last run() call
    error,              \* exception raised by the last call ("none" if none)
    calls,              \* store calls made by the current/last call, in order
    results_csv,        \* contents of <output_dir>/results.csv, NoFile if never written
    zips,               \* names of the archives written to <output_dir>
    ops,                \* number of calls made so far
    lastOp,             \* history: name of the current/last call
    fetched,            \* history: the records as the last fetch returned them
    resBase,            \* history: Len(results) when the current/last run() was called
    dry_done,           \* history: a run(full_run=False) of this Migrator got through
                        \*          fetch, transform, write-back and its report stage
    dry_snapshot        \* history: the records fetched by that dry run

vars == <<db, full_run, dry_run_complete, original_records, migrated_records,
          results, migration_callback, pc, run_arg, error, calls, results_csv,
          zips, ops, lastOp, fetched, resBase, dry_done, dry_snapshot>>

\* ------------------------------------------------------------ store client
\* client.retrive_docdb_records(filter_query=self.query, projection=...):
\* the documents matching the query, in identifier order.
RECURSIVE retrive_docdb_records(_, _)
retrive_docdb_records(d, i) ==
    IF i > MaxRecords THEN <<>>
    ELSE (IF d[i] = Absent THEN <<>> ELSE <<Record(i, d[i])>>)
         \o retrive_docdb_records(d, i + 1)

\* client.upsert_one_docdb_record(record) answered with response r
upsert_one_docdb_record(d, record, r) ==
    IF r.status_code = HTTP_OK THEN [d EXCEPT ![record._id] = record.name] ELSE d

UpsertCall(record, r) ==
    [op |-> "upsert", rec |-> record, status_code |-> r.status_code, text |-> r.text]

FetchCall == [op |-> "fetch", rec |-> Record(0, ""), status_code |-> 0, text |-> ""]

\* ------------------------------------------------------ migration callback
\* what the callback makes of a record: it renames the field
Renamed(record) == [record EXCEPT !.name = "new_name"]

\* the exception the callback raises, and str(e)
CallbackError(record) == [msg |-> "Migration error"]
str(e) == e.msg

\* -------------------------------------------------------------- __init__
\* Migrator.__init__
__init__(fr, cb) ==
    /\ pc = "idle"
    /\ ops < MaxOps
    /\ full_run' = fr
    /\ migration_callback' = cb
    /\ dry_run_complete' = FALSE
    /\ original_records' = <<>>
    /\ results' = <<>>
    /\ migrated_records' = <<>>
    /\ error' = "none"
    /\ calls' = <<>>
    /\ ops' = ops + 1
    /\ lastOp' = "__init__"
    /\ fetched' = <<>>
    /\ resBase' = 0
    /\ dry_done' = FALSE
    /\ dry_snapshot' = <<>>
    /\ UNCHANGED <<db, pc, run_arg, results_csv, zips>>

Init ==
    /\ db \in [Ids -> {"old_name", Absent}]
    /\ full_run \in BOOLEAN
    /\ migration_callback \in [Ids -> CallbackKinds]
    /\ dry_run_complete = FALSE
    /\ original_records = <<>>
    /\ results = <<>>
    /\ migrated_records = <<>>
    /\ pc = "idle"
    /\ run_arg = FALSE
    /\ error = "none"
    /\ calls = <<>>
    /\ results_csv = NoFile
    /\ zips = {}
    /\ ops = 0
    /\ lastOp = "__init__"
    /\ fetched = <<>>
    /\ resBase = 0
    /\ dry_done = FALSE
    /\ dry_snapshot = <<>>

\* ------------------------------------------------------------------- run
\* the guard with its negation lost: "if full_run and self.dry_run_complete"
RunGuardFails_negationLost(arg, drc) == arg /\ drc

\* migrate.py:59  "if full_run and not self.dry_run_complete"
RunGuardFails(arg, drc) == arg /\ ~drc

\* Migrator.run up to the call of self._setup()
run(arg) ==
    /\ pc = "idle"
    /\ ops < MaxOps
    /\ ops' = ops + 1
    /\ lastOp' = "run"
    /\ run_arg' = arg
    /\ calls' = <<>>
    /\ resBase' = Len(results)
    /\ IF RunGuardFails(arg, dry_run_complete)
       THEN /\ error' = "ValueError"
            /\ pc' = "idle"
       ELSE /\ error' = "none"
            /\ pc' = "setup"
    /\ UNCHANGED <<db, full_run, dry_run_complete, original_records,
                   migrated_records, results, migration_callback, results_csv,
                   zips, fetched, dry_done, dry_snapshot>>

\* Migrator._setup.  The projection built from self.files only limits the
\* fields of the fetched documents; a record is kept as {_id, name}.
_setup ==
    /\ pc = "setup"
    /\ original_records' = retrive_docdb_records(db, 1)
    /\ fetched' = original_records'
    /\ calls' = Append(calls, FetchCall)
    /\ pc' = "migrate"
    /\ UNCHANGED <<db, full_run, dry_run_complete, migrated_records, results,
                   migration_callback, run_arg, error, results_csv, zips, ops,
                   lastOp, resBase, dry_done, dry_snapshot>>

\* the loop body with the append moved out of the try block: a record on
\* which the callback raised is kept, unmigrated, in migrated_records
MigrateStep_keepsFailed(st, i, cb) ==
    LET record == st.orig[i]
        kind == cb[record._id]
    IN  CASE kind = "raise" ->
               [st EXCEPT !.mig = Append(@, record),
                          !.res = Append(@, [_id |-> record._id,
                                             status |-> "failed",
                                             notes |-> str(CallbackError(record))])]
          [] kind = "pure" ->
               [st EXCEPT !.mig = Append(@, Renamed(record))]
          [] kind = "inplace" ->
               [st EXCEPT !.orig[i] = Renamed(record),
                          !.mig = Append(@, Renamed(record))]

\* one iteration of the loop of Migrator._migrate on self.original_records[i];
\* st = [orig, mig, res] are original_records, migrated_records and results
MigrateStep(st, i, cb) ==
    LET record == st.orig[i]
        kind == cb[record._id]
    IN  CASE kind = "raise" ->
               [st EXCEPT !.res = Append(@, [_id |-> record._id,
                                             status |-> "failed",
                                             notes |-> str(CallbackError(record))])]
          [] kind = "pure" ->
               [st EXCEPT !.mig = Append(@, Renamed(record))]
          [] kind = "inplace" ->
               [st EXCEPT !.orig[i] = Renamed(record),
                          !.mig = Append(@, Renamed(record))]

RECURSIVE MigrateLoop(_, _, _)
MigrateLoop(st, i, cb) ==
    IF i > Len(st.orig) THEN st
    ELSE MigrateLoop(MigrateStep(st, i, cb), i + 1, cb)

\* Migrator._migrate
_migrate ==
    /\ pc = "migrate"
    /\ LET st == MigrateLoop([orig |-> original_records, mig |-> <<>>,
                              res |-> results], 1, migration_callback)
       IN  /\ original_records' = st.orig
           /\ migrated_records' = st.mig
           /\ results' = st.res
    /\ pc' = "upsert"
    /\ UNCHANGED <<db, full_run, dry_run_complete, migration_callback, run_arg,
                   error, calls, results_csv, zips, ops, lastOp, fetched,
                   resBase, dry_done, dry_snapshot>>

\* the loop body writing response.text into the notes of both branches
UpsertStep_notesAlways(st, record, r, full) ==
    IF full
    THEN [db |-> upsert_one_docdb_record(st.db, record, r),
          calls |-> Append(st.calls, UpsertCall(record, r)),
          res |-> Append(st.res, [_id |-> record._id,
                                  status |-> IF r.status_code = HTTP_OK
                                             THEN "success" ELSE "failed",
                                  notes |-> r.text])]
    ELSE st

\* the loop body putting its entry at the head of results
\* (self.results.insert(0, ...) for self.results.append(...))
UpsertStep_insertFront(st, record, r, full) ==
    IF full
    THEN [db |-> upsert_one_docdb_record(st.db, record, r),
          calls |-> Append(st.calls, UpsertCall(record, r)),
          res |-> <<[_id |-> record._id,
                     status |-> IF r.status_code = HTTP_OK
                                THEN "success" ELSE "failed",
                     notes |-> IF r.status_code = HTTP_OK
                               THEN "" ELSE r.text]>> \o st.res]
    ELSE st

\* one iteration of the loop of Migrator._upsert on self.migrated_records[k],
\* the store answering r; st = [db, calls, res]
UpsertStep(st, record, r, full) ==
    IF full
    THEN IF r.status_code = HTTP_OK
         THEN [db |-> upsert_one_docdb_record(st.db, record, r),
               calls |-> Append(st.calls, UpsertCall(record, r)),
               res |-> Append(st.res, [_id |-> record._id,
                                       status |-> "success",
                                       notes |-> ""])]
         ELSE [db |-> upsert_one_docdb_record(st.db, record, r),
               calls |-> Append(st.calls, UpsertCall(record, r)),
               res |-> Append(st.res, [_id |-> record._id,
                                       status |-> "failed",
                                       notes |-> r.text])]
    ELSE st     \* logging.info("Dry run: Record ... would be migrated")

RECURSIVE UpsertLoop(_, _, _, _, _)
UpsertLoop(st, mig, k, resp, full) ==
    IF k > Len(mig) THEN st
    ELSE UpsertLoop(UpsertStep(st, mig[k], resp[k], full), mig, k + 1, resp, full)

\* Migrator._upsert
_upsert ==
    /\ pc = "upsert"
    /\ \E resp \in [1..Len(migrated_records) -> Responses] :
         LET st == UpsertLoop([db |-> db, calls |-> calls, res |-> results],
                              migrated_records, 1, resp, full_run)
         IN  /\ db' = st.db
             /\ calls' = st.calls
             /\ results' = st.res
    /\ pc' = "teardown"
    /\ UNCHANGED <<full_run, dry_run_complete, original_records,
                   migrated_records, migration_callback, run_arg, error,
                   results_csv, zips, ops, lastOp, fetched, resBase, dry_done,
                   dry_snapshot>>

\* Migrator._teardown: create_output_zip is declared with three required
\* parameters and called with two, so the call raises TypeError before the
\* archive or results.csv is written; nothing assigns dry_run_complete.
_teardown ==
    /\ pc = "teardown"
    /\ IF create_output_zip_args = create_output_zip_params
       THEN /\ zips' = zips \cup {IF full_run THEN "full_run.zip" ELSE "dry_run.zip"}
            /\ results_csv' = results
            /\ error' = "none"
       ELSE /\ error' = "TypeError"
            /\ UNCHANGED <<zips, results_csv>>
    /\ pc' = "idle"
    /\ dry_done' = (dry_done \/ ~run_arg)
    /\ dry_snapshot' = IF run_arg THEN dry_snapshot ELSE fetched
    /\ UNCHANGED <<db, full_run, dry_run_complete, original_records,
                   migrated_records, results, migration_callback, run_arg,
                   calls, ops, lastOp, fetched, resBase>>

\* ---------------------------------------------------------------- revert
\* the guard testing for None instead of emptiness:
\* "if self.original_records is None", never true of a list
RevertGuardFails_isNone(orig) == FALSE

\* migrate.py:73  "if not self.original_records"
RevertGuardFails(orig) == orig = <<>>

\* one iteration of the loop of Migrator.revert; st = [db, calls]
RevertStep(st, record, r) ==
    [db |-> upsert_one_docdb_record(st.db, record, r),
     calls |-> Append(st.calls, UpsertCall(record, r))]

RECURSIVE RevertLoop(_, _, _, _)
RevertLoop(st, orig, k, resp) ==
    IF k > Len(orig) THEN st
    ELSE RevertLoop(RevertStep(st, orig[k], resp[k]), orig, k + 1, resp)

\* Migrator.revert
revert ==
    /\ pc = "idle"
    /\ ops < MaxOps
    /\ ops' = ops + 1
    /\ lastOp' = "revert"
    /\ IF RevertGuardFails(original_records)
       THEN /\ error' = "ValueError"
            /\ calls' = <<>>
            /\ db' = db
       ELSE /\ error' = "none"
            /\ \E resp \in [1..Len(original_records) -> Responses] :
                 LET st == RevertLoop([db |-> db, calls |-> <<>>],
                                      original_records, 1, resp)
                 IN  /\ db' = st.db
                     /\ calls' = st.calls
    /\ UNCHANGED <<full_run, dry_run_complete, original_records,
                   migrated_records, results, migration_callback, pc, run_arg,
                   results_csv, zips, resBase, fetched, dry_done, dry_snapshot>>

Next ==
    \/ \E fr \in BOOLEAN, cb \in [Ids -> CallbackKinds] : __init__(fr, cb)
    \/ \E arg \in BOOLEAN : run(arg)
    \/ _setup
    \/ _migrate
    \/ _upsert
    \/ _teardown
    \/ revert

Spec == Init /\ [][Next]_vars

TypeOK ==
    /\ pc \in {"idle", "setup", "migrate", "upsert", "teardown"}
    /\ error \in {"none", "ValueError", "TypeError"}
    /\ Len(fetched) = Len(original_records)
    /\ ops \in 0..MaxOps

\* ================================================================= claims
\* a step that is a call of run(full_run) / revert() on the idle Migrator
IsRunCall(arg) == pc = "idle" /\ ops' = ops + 1 /\ lastOp' = "run" /\ run_arg' = arg
IsRevertCall == pc = "idle" /\ ops' = ops + 1 /\ lastOp' = "revert"

IsUpsert(c) == c.op = "upsert"
UpsertsOf(cs) == SelectSeq(cs, IsUpsert)

\* the entries the current/last run() has appended to results
NewResults == SubSeq(results, resBase + 1, Len(results))

\* positions of the fetched records on which the callback raises / returns
Raising == {i \in 1..Len(fetched) : migration_callback[fetched[i]._id] = "raise"}
Returning == (1..Len(fetched)) \ Raising
PosOf(id) == CHOOSE i \in 1..Len(fetched) : fetched[i]._id = id

\* C1: run(full_run=True) on a Migrator on which no dry run has completed
\* raises ValueError before the fetch stage: the call ends at once, no store
\* call is made (no fetch, no upsert), and original_records, results and the
\* store are as they were.
C1_FullRunWithoutDryRunRejected ==
    [][(IsRunCall(TRUE) /\ ~dry_run_complete) =>
          /\ error' = "ValueError"
          /\ pc' = "idle"
          /\ calls' = <<>>
          /\ db' = db
          /\ original_records' = original_records
          /\ results' = results]_vars

\* a full run was refused on a Migrator that had already fetched records
C1_Witness ==
    /\ lastOp = "run" /\ run_arg /\ error = "ValueError" /\ pc = "idle"
    /\ ~dry_run_complete
    /\ original_records # <<>>
    /\ calls = <<>>

\* C2: a run issues upserts only if a dry run completed before on this
\* Migrator against a fetched set identical to the one now fetched.
C2_WritesOnlyAfterMatchingDryRun ==
    (lastOp = "run" /\ UpsertsOf(calls) # <<>>) =>
        (dry_done /\ dry_snapshot = fetched)

\* C3: a run() invoked with full_run false issues no upsert.
C3_DryRunIssuesNoUpsert ==
    (lastOp = "run" /\ ~run_arg) => UpsertsOf(calls) = <<>>

\* C4: when a run() that passed the guard has gone through its stages, results
\* holds as many entries as records were fetched.
C4_OneResultPerFetchedRecord ==
    (lastOp = "run" /\ pc = "idle" /\ error # "ValueError") =>
        Len(results) = Len(fetched)

\* C5: once a dry run has completed on the Migrator and the store still
\* returns the same record set, run(full_run=True) is not refused and goes on
\* to the fetch stage.
C5_FullRunAfterDryRunPermitted ==
    [][(IsRunCall(TRUE) /\ dry_done /\ retrive_docdb_records(db, 1) = dry_snapshot) =>
          (error' # "ValueError" /\ pc' = "setup")]_vars

\* C6: revert() while original_records is empty raises ValueError and makes
\* no upsert and no other store call.
C6_RevertWithoutRecordsRejected ==
    [][(IsRevertCall /\ original_records = <<>>) =>
          /\ error' = "ValueError"
          /\ pc' = "idle"
          /\ calls' = <<>>
          /\ db' = db]_vars

\* revert() was refused on a Migrator that never fetched a record
C6_Witness ==
    /\ lastOp = "revert" /\ error = "ValueError" /\ original_records = <<>>
    /\ calls = <<>>

\* C7: revert() with N >= 1 original records issues exactly N upserts, the
\* i-th carrying the i-th record exactly as it was fetched.
C7_RevertReplaysFetchedRecords ==
    (lastOp = "revert" /\ error = "none") =>
        /\ Len(calls) = Len(fetched)
        /\ \A i \in 1..Len(calls) : IsUpsert(calls[i]) /\ calls[i].rec = fetched[i]

\* C8: when the transform stage has run: a record on which the callback raised
\* is absent from migrated_records and has exactly one new result entry
\* {identifier, failed, str(error)}; every record on which the callback
\* returned (also one after a raising record) is in migrated_records once, as
\* the callback returned it, and migrated_records is in fetch order.
C8_TransformPartialFailure ==
    pc = "upsert" =>
        /\ Len(NewResults) = Cardinality(Raising)
        /\ Len(migrated_records) = Cardinality(Returning)
        /\ \A i \in Raising :
              /\ \A k \in 1..Len(migrated_records) :
                     migrated_records[k]._id # fetched[i]._id
              /\ \E k \in 1..Len(NewResults) :
                     NewResults[k] = [_id |-> fetched[i]._id, status |-> "failed",
                                      notes |-> "Migration error"]
        /\ \A i \in Returning :
              \E k \in 1..Len(migrated_records) :
                  migrated_records[k] = [_id |-> fetched[i]._id, name |-> "new_name"]
        /\ \A k1, k2 \in 1..Len(migrated_records) :
              k1 < k2 => PosOf(migrated_records[k1]._id) < PosOf(migrated_records[k2]._id)

\* the callback raised on the first fetched record and returned on the second
C8_Witness ==
    /\ pc = "upsert"
    /\ Len(fetched) >= 2
    /\ 1 \in Raising /\ 2 \in Returning
    /\ Len(migrated_records) >= 1

\* C9: when the write-back stage has run with self.full_run set: the upserts
\* issued are the migrated records, each once and in order, and the k-th
\* migrated record has one result entry, success with empty notes when the
\* response status was 200, failed with the response text otherwise.
C9_FullRunWriteBack ==
    (pc = "teardown" /\ full_run) =>
        LET ups == UpsertsOf(calls)
            n == Len(migrated_records)
            base == Len(results) - n
        IN  /\ Len(ups) = n
            /\ base = resBase + Cardinality(Raising)
            /\ \A k \in 1..n :
                  /\ ups[k].rec = migrated_records[k]
                  /\ results[base + k] =
                        [_id |-> migrated_records[k]._id,
                         status |-> IF ups[k].status_code = 200
                                    THEN "success" ELSE "failed",
                         notes |-> IF ups[k].status_code = 200
                                   THEN "" ELSE ups[k].text]

\* two records were written back, the first upsert failed, the second succeeded
C9_Witness ==
    /\ pc = "teardown" /\ full_run
    /\ Len(migrated_records) = 2
    /\ Len(UpsertsOf(calls)) = 2
    /\ UpsertsOf(calls)[1].status_code = 500
    /\ UpsertsOf(calls)[2].status_code = 200

\* C10: when the write-back stage has run with self.full_run false: the k-th
\* migrated record has the result entry {identifier, dry_run, ""}.
C10_DryRunWriteBackEntries ==
    (pc = "teardown" /\ ~full_run) =>
        LET n == Len(migrated_records)
            base == Len(results) - n
        IN  /\ base = resBase + Cardinality(Raising)
            /\ \A k \in 1..n :
                  results[base + k] = [_id |-> migrated_records[k]._id,
                                       status |-> "dry_run", notes |-> ""]

\* a step that ends the report stage of a run
IsTeardownStep == pc = "teardown" /\ pc' = "idle"

\* C11: dry_run_complete is false after construction; the report stage of a
\* dry run (self.full_run false) sets it, the report stage of a full run
\* leaves it as it was, and no other step changes it.
C11_DryRunCompleteSetByDryTeardown ==
    [][/\ (lastOp' = "__init__" /\ ops' = ops + 1) => dry_run_complete' = FALSE
       /\ (IsTeardownStep /\ ~full_run) => dry_run_complete' = TRUE
       /\ (IsTeardownStep /\ full_run) => dry_run_complete' = dry_run_complete
       /\ (~IsTeardownStep /\ ~(lastOp' = "__init__" /\ ops' = ops + 1)) =>
              dry_run_complete' = dry_run_complete]_vars

\* C12: a run() that passes the guard goes through fetch, transform,
\* write-back and report once each, in that order, and ends normally, its
\* report stage having written the accumulated results to results.csv.
C12_StagesInOrderAndReportWritten ==
    [][/\ (pc = "idle" /\ pc' # "idle") => pc' = "setup"
       /\ pc = "setup" => pc' = "migrate"
       /\ pc = "migrate" => pc' = "upsert"
       /\ pc = "upsert" => pc' = "teardown"
       /\ pc = "teardown" =>
              /\ pc' = "idle"
              /\ error' = "none"
              /\ results_csv' = results]_vars

\* the entries of the current/last run() are in fetch order
InFetchOrder(es) ==
    \A k1, k2 \in 1..Len(es) : k1 < k2 => PosOf(es[k1]._id) < PosOf(es[k2]._id)

\* a run() that passed the guard has finished its write-back stage
WriteBackDone == lastOp = "run" /\ pc = "teardown"

\* C13: after the write-back stage the entries the run appended to results
\* are in fetch order, also when some records failed in the transform stage
\* and others reached the write-back stage.
C13_ResultsInFetchOrder ==
    WriteBackDone => InFetchOrder(NewResults)

\* C13 as amended: the entries a run appends to results are ordered by stage
\* and, within a stage, by fetch order: first the failed entries of the
\* transform stage, in fetch order, then the entries of the write-back stage,
\* in fetch order.
C13_ResultsInStageThenFetchOrder ==
    WriteBackDone =>
        LET nf == Cardinality(Raising)
            fromTransform == SubSeq(NewResults, 1, nf)
            fromWriteBack == SubSeq(NewResults, nf + 1, Len(NewResults))
        IN  /\ nf <= Len(NewResults)
            /\ \A k \in 1..Len(fromTransform) :
                   PosOf(fromTransform[k]._id) \in Raising
            /\ \A k \in 1..Len(fromWriteBack) :
                   PosOf(fromWriteBack[k]._id) \in Returning
            /\ InFetchOrder(fromTransform)
            /\ InFetchOrder(fromWriteBack)

\* of two fetched records the first was written back and the second failed
\* in the transform stage: the run appended the entry of the second first
C13_Witness ==
    /\ WriteBackDone /\ full_run
    /\ Len(fetched) = 2
    /\ Raising = {2}
    /\ Len(NewResults) = 2
    /\ NewResults[1]._id = fetched[2]._id
    /\ NewResults[2]._id = fetched[1]._id

\* C14: results is emptied when a run() starts and only grows by appending
\* while the run goes through its stages, so that it holds the entries of the
\* most recent run only.
C14_ResultsResetEachRun ==
    [][/\ (pc = "idle" /\ pc' = "setup") => results' = <<>>
       /\ (pc # "idle") => /\ Len(results') >= Len(results)
                           /\ SubSeq(results', 1, Len(results)) = results]_vars
====
